---- MODULE Spec2Model ----
(***************************************************************************)
(* Model of src/libecryptfs/netlink.c: the userspace side of the eCryptfs  *)
(* netlink transport (ecryptfs_send_netlink, ecryptfs_recv_netlink) and    *)
(* the daemon loop ecryptfs_run_netlink_daemon.                            *)
(*                                                                         *)
(* One daemon thread; pc is its position.  ecryptfs_recv_netlink is split  *)
(* at its labels (realloc / recvfrom / validation), the daemon at its      *)
(* labels (receive / dispatch chain / free_emsg / out).                    *)
(*                                                                         *)
(* Undefined behaviour is a choice over what a build can do:               *)
(*  - free() of a pointer that was already freed (emsg is never reset to   *)
(*    NULL after free_emsg): the allocator aborts the process, or the call *)
(*    goes unnoticed;                                                      *)
(*  - a read through a freed emsg yields any value;                        *)
(*  - a read through a NULL emsg kills the process.                        *)
(***************************************************************************)
EXTENDS Integers, FiniteSets, Sequences, TLC

\* ---------------------------------------------------------------- bounds
\* ECRYPTFS_NETLINK_ERROR_COUNT_THRESHOLD comes from ../include/ecryptfs.h
\* (line 36); netlink.c only compares against it (line 214), and no property
\* below depends on its value.
ECRYPTFS_NETLINK_ERROR_COUNT_THRESHOLD == 2
\* sequence numbers and message indices carried by the frames of the model
MaxSeq == 2
MaxIndex == 2
\* frame buffers counted as lost on the heap (the count saturates here)
MaxLeak == 2
\* REQUEST frames received and not answered, as far as they are counted (the
\* count saturates here)
MaxOwed == 2

\* ------------------------------------------------------------- constants
\* sizeof(struct nlmsghdr) = NLMSG_HDRLEN = NLMSG_SPACE(0)
HdrLen == 16
\* errno values as the code negates them
ENOMEM == 12
EPROTO == 71
ENOMSG == 42
EIO == 5
\* errno left by a failed recvfrom / sendto
EINTR == 4
\* nonzero status of ecryptfs_register_key_modules / parse_packet
EINVAL == 22

\* ---------------------------------------------------------------- frames
MsgTypes == {"HELO", "QUIT", "REQUEST", "RESPONSE"}
Seqs == 1..MaxSeq
Idx == 1..MaxIndex
\* declared nlmsg_len: shorter than the header, header only, header plus a
\* struct ecryptfs_netlink_message without data (index, data_len)
Lens == {HdrLen - 8, HdrLen, HdrLen + 8}

\* A datagram as recvfrom delivers it: the netlink header (len, type, seq),
\* the sender's address (nl_pid, and whether the reported address length is
\* sizeof(struct sockaddr_nl)), and the index of the message in its payload
\* (0 when the frame carries no message).
Frames ==
    { [type |-> t, seq |-> s, pid |-> p, addr_ok |-> a, len |-> l, index |-> i] :
        t \in MsgTypes, s \in Seqs, p \in {0, 1}, a \in BOOLEAN,
        l \in Lens, i \in 0..MaxIndex }

WellFormed(f) == (f.len > HdrLen) <=> (f.index # 0)

InFrames == { f \in Frames : WellFormed(f) }

NoFrame == [type |-> "NONE", seq |-> 0, pid |-> 0, addr_ok |-> TRUE, len |-> 0, index |-> 0]

\* what ecryptfs_send_netlink was handed in this iteration
NoTx == [type |-> "NONE", seq |-> 0, index |-> 0, sent |-> FALSE]

\* the daemon's emsg pointer: NULL, a live message, or a freed one
NullMsg == [st |-> "null", index |-> 0]
FreedMsg == [st |-> "freed", index |-> 0]
LiveMsg(i) == [st |-> "live", index |-> i]

VARIABLES
    pc,           \* position of the daemon thread
    rc,           \* rc of ecryptfs_run_netlink_daemon (receives each callee's rc)
    error_count,  \* error_count of ecryptfs_run_netlink_daemon
    emsg,         \* emsg of ecryptfs_run_netlink_daemon
    msg_seq,      \* msg_seq (0: not yet written)
    msg_type,     \* msg_type ("NONE": not yet written)
    nlh,          \* ecryptfs_recv_netlink: size of the buffer nlh points to, 0 for NULL
    buf_len,      \* ecryptfs_recv_netlink: buf_len
    peek,         \* ecryptfs_recv_netlink: flags & MSG_PEEK
    chan,         \* the datagram at the head of the socket's queue, once seen
    leaked,       \* frame buffers a return of ecryptfs_recv_netlink left allocated
    reg_calls,    \* calls of ecryptfs_register_key_modules
    free_calls,   \* calls of ecryptfs_free_key_mod_list
    rx,           \* the frame the destructive read of this iteration delivered
    tx,           \* the frame handed to ecryptfs_send_netlink in this iteration
    handled,      \* parse_packet was called in this iteration
    run,          \* receive failures in a row since error_count was 0; -1: none such run
    pl_alloc,     \* size of the message buffer this iteration's receive allocated, 0 for none
    fails,        \* failed receives since loop start, the last HELO, the last handled REQUEST
    owed,         \* REQUEST frames received minus frames handed to ecryptfs_send_netlink
    sends,        \* calls of ecryptfs_send_netlink in this iteration
    h_ok          \* parse_packet returned 0 in this iteration

vars == << pc, rc, error_count, emsg, msg_seq, msg_type, nlh, buf_len, peek,
           chan, leaked, reg_calls, free_calls, rx, tx, handled, run,
           pl_alloc, fails, owed, sends, h_ok >>

recvLocals == << nlh, buf_len, peek >>
hist == << rx, tx, handled, run >>
counts == << pl_alloc, fails, owed, sends, h_ok >>

Min(a, b) == IF a < b THEN a ELSE b

Init ==
    /\ pc = "start"
    /\ rc = 0
    /\ error_count = 0
    /\ emsg = NullMsg
    /\ msg_seq = 0
    /\ msg_type = "NONE"
    /\ nlh = 0
    /\ buf_len = 0
    /\ peek = FALSE
    /\ chan = NoFrame
    /\ leaked = 0
    /\ reg_calls = 0
    /\ free_calls = 0
    /\ rx = NoFrame
    /\ tx = NoTx
    /\ handled = FALSE
    /\ run = -1
    /\ pl_alloc = 0
    /\ fails = 0
    /\ owed = 0
    /\ sends = 0
    /\ h_ok = FALSE


\* ------------------------------------------------- ecryptfs_recv_netlink
\* a frame buffer is left allocated with no pointer to it
Leak(n) == IF n < MaxLeak THEN n + 1 ELSE n

\* return of ecryptfs_recv_netlink to line 208 of the daemon
RecvReturn(r) ==
    /\ rc' = r
    /\ pc' = "dispatch"

\* line 208 calls ecryptfs_recv_netlink; lines 82-88 set its locals
RecvEnter ==
    /\ pc = "receive"
    /\ nlh' = 0
    /\ peek' = TRUE
    /\ buf_len' = HdrLen
    /\ pc' = "r_realloc"
    /\ run' = IF error_count = 0 THEN 0 ELSE run
    /\ UNCHANGED << rc, error_count, emsg, msg_seq, msg_type, chan, leaked,
                    reg_calls, free_calls, rx, tx, handled >>
    /\ UNCHANGED counts

\* lines 91-97, realloc succeeds: a new buffer when nlh is NULL, else the
\* same buffer resized
RecvReallocOk ==
    /\ pc = "r_realloc"
    /\ nlh' = buf_len
    /\ pc' = "r_recvfrom"
    /\ UNCHANGED << rc, error_count, emsg, msg_seq, msg_type, buf_len, peek,
                    chan, leaked, reg_calls, free_calls, hist >>
    /\ UNCHANGED counts

\* lines 91-97, realloc fails: nlh becomes NULL, the block it pointed to
\* stays allocated, goto out
RecvReallocFail ==
    /\ pc = "r_realloc"
    /\ nlh' = 0
    /\ leaked' = IF nlh # 0 THEN Leak(leaked) ELSE leaked
    /\ RecvReturn(-ENOMEM)
    /\ UNCHANGED << error_count, emsg, msg_seq, msg_type, buf_len, peek,
                    chan, reg_calls, free_calls, hist >>
    /\ UNCHANGED counts

\* lines 98-105, recvfrom fails (peek or read): nothing is taken from the
\* socket, goto free_out
RecvFromFail ==
    /\ pc = "r_recvfrom"
    /\ nlh' = 0
    /\ RecvReturn(-EINTR)
    /\ UNCHANGED << error_count, emsg, msg_seq, msg_type, buf_len, peek,
                    chan, leaked, reg_calls, free_calls, hist >>
    /\ UNCHANGED counts

\* lines 98-110 with MSG_PEEK: the header of the datagram at the head of
\* the queue is copied, the datagram stays queued
RecvPeek_noresize ==
    /\ pc = "r_recvfrom"
    /\ peek
    /\ \E f \in InFrames :
         /\ chan \in {NoFrame, f}
         /\ chan' = f
         /\ buf_len' = buf_len
    /\ peek' = FALSE
    /\ pc' = "r_realloc"
    /\ UNCHANGED << rc, error_count, emsg, msg_seq, msg_type, nlh, leaked,
                    reg_calls, free_calls, hist >>
    /\ UNCHANGED counts
RecvPeek ==
    /\ pc = "r_recvfrom"
    /\ peek
    /\ \E f \in InFrames :
         /\ chan \in {NoFrame, f}
         /\ chan' = f
         /\ buf_len' = f.len
    /\ peek' = FALSE
    /\ pc' = "r_realloc"
    /\ UNCHANGED << rc, error_count, emsg, msg_seq, msg_type, nlh, leaked,
                    reg_calls, free_calls, hist >>
    /\ UNCHANGED counts

\* lines 98-110 without MSG_PEEK: the datagram is taken from the queue
RecvRead ==
    /\ pc = "r_recvfrom"
    /\ ~peek
    /\ chan # NoFrame
    /\ rx' = chan
    /\ chan' = NoFrame
    /\ rc' = Min(buf_len, chan.len)
    /\ pc' = "r_check"
    /\ UNCHANGED << error_count, emsg, msg_seq, msg_type, recvLocals, leaked,
                    reg_calls, free_calls, tx, handled, run >>
    /\ UNCHANGED counts

\* line 116: the sender is not the kernel
Spoofed_none(f) == FALSE
Spoofed(f) == f.pid # 0

\* line 124: NLMSG_PAYLOAD(nlh, 0)
PayloadLen_total(f) == f.len
PayloadLen(f) == f.len - HdrLen

\* lines 111-115: the reported address length is not sizeof(nladdr)
RecvMalformed ==
    /\ pc = "r_check"
    /\ ~rx.addr_ok
    /\ nlh' = 0
    /\ RecvReturn(-EPROTO)
    /\ UNCHANGED << error_count, emsg, msg_seq, msg_type, buf_len, peek, chan,
                    leaked, reg_calls, free_calls, hist >>
    /\ UNCHANGED counts

\* lines 116-123: goto out, past free_out
RecvSpoofed ==
    /\ pc = "r_check"
    /\ rx.addr_ok
    /\ Spoofed(rx)
    /\ leaked' = Leak(leaked)
    /\ RecvReturn(-ENOMSG)
    /\ UNCHANGED << error_count, emsg, msg_seq, msg_type, recvLocals, chan,
                    reg_calls, free_calls, hist >>
    /\ UNCHANGED counts

\* lines 125-133: malloc(pl_len) fails; a negative pl_len is a size no
\* malloc grants. *emsg is NULL afterwards.
RecvMsgAllocFail ==
    /\ pc = "r_check"
    /\ rx.addr_ok
    /\ ~Spoofed(rx)
    /\ PayloadLen(rx) # 0
    /\ emsg' = NullMsg
    /\ nlh' = 0
    /\ RecvReturn(-ENOMEM)
    /\ UNCHANGED << error_count, msg_seq, msg_type, buf_len, peek, chan,
                    leaked, reg_calls, free_calls, hist >>
    /\ UNCHANGED counts

\* lines 124-141: the payload, if any, is copied into a new message; the
\* sequence number and type are handed out; rc is recvfrom's byte count
RecvAccept ==
    /\ pc = "r_check"
    /\ rx.addr_ok
    /\ ~Spoofed(rx)
    /\ PayloadLen(rx) >= 0
    /\ emsg' = IF PayloadLen(rx) # 0 THEN LiveMsg(rx.index) ELSE emsg
    /\ msg_seq' = rx.seq
    /\ msg_type' = rx.type
    /\ nlh' = 0
    /\ pc' = "dispatch"
    /\ UNCHANGED << rc, error_count, buf_len, peek, chan, leaked, reg_calls,
                    free_calls, hist >>
    /\ pl_alloc' = IF PayloadLen(rx) # 0 THEN PayloadLen(rx) ELSE 0
    /\ owed' = IF rx.type = "REQUEST" /\ owed < MaxOwed THEN owed + 1 ELSE owed
    /\ UNCHANGED << fails, sends, h_ok >>


\* ------------------------------------------------- ecryptfs_send_netlink
SendOutcomes == {"ok", "nomem", "sendfail"}

\* lines 59-63: the header built for the frame; lines 66-73: whether sendto
\* put it on the wire
SendNetlink_seq0(index, type, seq, out) ==
    [type |-> type, seq |-> 0, index |-> index, sent |-> (out = "ok")]
SendNetlink_notype(index, type, seq, out) ==
    [type |-> "NONE", seq |-> seq, index |-> index, sent |-> (out = "ok")]
SendNetlink(index, type, seq, out) ==
    [type |-> type, seq |-> seq, index |-> index, sent |-> (out = "ok")]

\* the rc of ecryptfs_send_netlink: -ENOMEM (line 52), -errno (line 69), or
\* sendto's byte count, NLMSG_LENGTH(sizeof(*emsg)) for a reply without data
SendRc(out) ==
    CASE out = "nomem" -> -ENOMEM
      [] out = "sendfail" -> -EINTR
      [] OTHER -> HdrLen + 8

\* ------------------------------------------- ecryptfs_run_netlink_daemon
\* free(p): a live message becomes a freed one; the pointer keeps its value
Free(m) == IF m.st = "live" THEN FreedMsg ELSE m

\* free(p) of a pointer that was freed before
DoubleFree(m) == m.st = "freed"

\* line 214
ThresholdExceeded_ge(c) == c >= ECRYPTFS_NETLINK_ERROR_COUNT_THRESHOLD
ThresholdExceeded(c) == c > ECRYPTFS_NETLINK_ERROR_COUNT_THRESHOLD

\* line 241: reply->index = emsg->index
SetReplyIndex(reply, i) == [reply EXCEPT !.index = i]

\* lines 200-206, ecryptfs_register_key_modules returns 0
RegisterOk ==
    /\ pc = "start"
    /\ reg_calls' = reg_calls + 1
    /\ rc' = 0
    /\ pc' = "receive"
    /\ UNCHANGED << error_count, emsg, msg_seq, msg_type, recvLocals, chan,
                    leaked, free_calls, hist >>
    /\ UNCHANGED counts

\* lines 200-206, ecryptfs_register_key_modules fails: goto out
RegisterFail_return ==
    /\ pc = "start"
    /\ reg_calls' = reg_calls + 1
    /\ rc' = -EINVAL
    /\ pc' = "returned"
    /\ UNCHANGED << error_count, emsg, msg_seq, msg_type, recvLocals, chan,
                    leaked, free_calls, hist >>
    /\ UNCHANGED counts
RegisterFail ==
    /\ pc = "start"
    /\ reg_calls' = reg_calls + 1
    /\ rc' = -EINVAL
    /\ pc' = "out"
    /\ UNCHANGED << error_count, emsg, msg_seq, msg_type, recvLocals, chan,
                    leaked, free_calls, hist >>
    /\ UNCHANGED counts

\* lines 209-220: the receive failed
DispatchRecvError ==
    /\ pc = "dispatch"
    /\ rc < 0
    /\ error_count' = error_count + 1
    /\ run' = IF run >= 0 THEN run + 1 ELSE run
    /\ IF ThresholdExceeded(error_count + 1)
         THEN /\ rc' = -EIO
              /\ pc' = "out"
         ELSE /\ rc' = rc
              /\ pc' = "free_emsg"
    /\ UNCHANGED << emsg, msg_seq, msg_type, recvLocals, chan, leaked,
                    reg_calls, free_calls, rx, tx, handled >>
    /\ fails' = fails + 1
    /\ UNCHANGED << pl_alloc, owed, sends, h_ok >>

\* lines 221-224
DispatchHelo_noreset ==
    /\ pc = "dispatch"
    /\ rc >= 0
    /\ msg_type = "HELO"
    /\ error_count' = error_count
    /\ run' = -1
    /\ pc' = "free_emsg"
    /\ UNCHANGED << rc, emsg, msg_seq, msg_type, recvLocals, chan, leaked,
                    reg_calls, free_calls, rx, tx, handled >>
    /\ fails' = 0
    /\ UNCHANGED << pl_alloc, owed, sends, h_ok >>
DispatchHelo ==
    /\ pc = "dispatch"
    /\ rc >= 0
    /\ msg_type = "HELO"
    /\ error_count' = 0
    /\ run' = -1
    /\ pc' = "free_emsg"
    /\ UNCHANGED << rc, emsg, msg_seq, msg_type, recvLocals, chan, leaked,
                    reg_calls, free_calls, rx, tx, handled >>
    /\ fails' = 0
    /\ UNCHANGED << pl_alloc, owed, sends, h_ok >>

\* lines 225-230: free(emsg), rc = 0, goto out
DispatchQuit ==
    /\ pc = "dispatch"
    /\ rc >= 0
    /\ msg_type = "QUIT"
    /\ run' = -1
    /\ emsg' = Free(emsg)
    /\ \/ /\ rc' = 0
          /\ pc' = "out"
       \/ /\ DoubleFree(emsg)
          /\ rc' = rc
          /\ pc' = "aborted"
    /\ UNCHANGED << error_count, msg_seq, msg_type, recvLocals, chan, leaked,
                    reg_calls, free_calls, rx, tx, handled >>
    /\ UNCHANGED counts

\* lines 231-251: parse_packet, then the reply is sent
DispatchRequest ==
    /\ pc = "dispatch"
    /\ rc >= 0
    /\ msg_type = "REQUEST"
    /\ run' = -1
    /\ handled' = TRUE
    /\ \/ \* parse_packet fails: free(reply), goto free_emsg
          /\ rc' = -EINVAL
          /\ pc' = "free_emsg"
          /\ UNCHANGED << error_count, tx, fails, owed, sends, h_ok >>
       \/ \* parse_packet returns 0 and a reply whose index it chose
          /\ emsg.st # "null"
          /\ \E h \in Idx, i \in Idx, out \in SendOutcomes :
               /\ emsg.st = "live" => i = emsg.index
               /\ LET reply == SetReplyIndex([index |-> h], i)
                  IN  tx' = SendNetlink(reply.index, "RESPONSE", msg_seq, out)
               /\ rc' = SendRc(out)
          /\ error_count' = 0
          /\ fails' = 0
          /\ h_ok' = TRUE
          /\ sends' = sends + 1
          /\ owed' = owed - 1
          /\ pc' = "free_emsg"
       \/ \* emsg is NULL or freed: parse_packet or line 241 reads through it
          /\ emsg.st # "live"
          /\ pc' = "aborted"
          /\ UNCHANGED << rc, error_count, tx, fails, owed, sends, h_ok >>
    /\ UNCHANGED << emsg, msg_seq, msg_type, recvLocals, chan, leaked,
                    reg_calls, free_calls, rx, pl_alloc >>

\* lines 252-254
DispatchOther ==
    /\ pc = "dispatch"
    /\ rc >= 0
    /\ msg_type \notin {"HELO", "QUIT", "REQUEST"}
    /\ run' = -1
    /\ pc' = "free_emsg"
    /\ UNCHANGED << rc, error_count, emsg, msg_seq, msg_type, recvLocals, chan,
                    leaked, reg_calls, free_calls, rx, tx, handled >>
    /\ UNCHANGED counts

\* lines 255-257: free(emsg), goto receive; the next iteration starts with
\* nothing received, sent or handled
FreeEmsg ==
    /\ pc = "free_emsg"
    /\ emsg' = Free(emsg)
    /\ \/ /\ pc' = "receive"
          /\ rx' = NoFrame
          /\ tx' = NoTx
          /\ handled' = FALSE
       \/ /\ DoubleFree(emsg)
          /\ pc' = "aborted"
          /\ UNCHANGED << rx, tx, handled >>
    /\ UNCHANGED << rc, error_count, msg_seq, msg_type, recvLocals, chan,
                    leaked, reg_calls, free_calls, run >>
    /\ IF pc' = "receive"
         THEN pl_alloc' = 0 /\ sends' = 0 /\ h_ok' = FALSE
         ELSE UNCHANGED << pl_alloc, sends, h_ok >>
    /\ UNCHANGED << fails, owed >>

\* lines 258-260: ecryptfs_free_key_mod_list, return rc
Out ==
    /\ pc = "out"
    /\ free_calls' = free_calls + 1
    /\ pc' = "returned"
    /\ UNCHANGED << rc, error_count, emsg, msg_seq, msg_type, recvLocals, chan,
                    leaked, reg_calls, hist >>
    /\ UNCHANGED counts

Next ==
    \/ RegisterOk
    \/ RegisterFail
    \/ RecvEnter
    \/ RecvReallocOk
    \/ RecvReallocFail
    \/ RecvFromFail
    \/ RecvPeek
    \/ RecvRead
    \/ RecvMalformed
    \/ RecvSpoofed
    \/ RecvMsgAllocFail
    \/ RecvAccept
    \/ DispatchRecvError
    \/ DispatchHelo
    \/ DispatchQuit
    \/ DispatchRequest
    \/ DispatchOther
    \/ FreeEmsg
    \/ Out

Spec == Init /\ [][Next]_vars

\* ------------------------------------------------------ states of the loop
InRecv == pc \in {"r_realloc", "r_recvfrom", "r_check"}
RUNNING == pc \in {"receive", "dispatch", "free_emsg"} \/ InRecv
TERMINATED_CLEAN == pc \in {"out", "returned"} /\ rc = 0
TERMINATED_FATAL == pc \in {"out", "returned"} /\ rc # 0
Aborted == pc = "aborted"

TypeOK ==
    /\ pc \in {"start", "receive", "r_realloc", "r_recvfrom", "r_check",
               "dispatch", "free_emsg", "out", "returned", "aborted"}
    /\ error_count \in 0..(ECRYPTFS_NETLINK_ERROR_COUNT_THRESHOLD + 1)
    /\ emsg \in {NullMsg, FreedMsg} \cup { LiveMsg(i) : i \in Idx }
    /\ msg_seq \in 0..MaxSeq
    /\ msg_type \in MsgTypes \cup {"NONE"}
    /\ chan \in InFrames \cup {NoFrame}
    /\ rx \in InFrames \cup {NoFrame}
    /\ leaked \in 0..MaxLeak
    /\ reg_calls \in 0..1
    /\ free_calls \in 0..1
    /\ pl_alloc \in {0, 8}
    /\ fails \in 0..(ECRYPTFS_NETLINK_ERROR_COUNT_THRESHOLD + 1)
    /\ owed \in 0..MaxOwed
    /\ sends \in 0..1
    /\ h_ok \in BOOLEAN


\* ------------------------------------------------------------------ claims

\* C1: every RESPONSE frame handed to ecryptfs_send_netlink carries the
\* sequence number of the REQUEST frame that the same loop iteration
\* received, whatever was received or failed before.
C1_ResponseSeq ==
    tx # NoTx =>
        /\ tx.type = "RESPONSE"
        /\ rx.type = "REQUEST"
        /\ tx.seq = rx.seq

\* C1 witness: a response went out for a request carrying the highest
\* sequence number, after an earlier frame had left another one in msg_seq
\* and an earlier receive had failed.
C1_Witness ==
    /\ tx.sent
    /\ rx.seq = MaxSeq
    /\ leaked > 0

\* C2: a transmitted reply carries the index of the message of the REQUEST
\* it answers, whatever the handler wrote and whatever was received before.
C2_ReplyIndex ==
    (tx # NoTx /\ tx.sent) => tx.index = rx.index

\* C3 as stated: a frame read with a nonzero sender identity makes
\* ecryptfs_recv_netlink return the SpoofedSender error (-ENOMSG), and
\* neither parse_packet nor a send happens for it.
C3_SpoofedAlwaysENOMSG ==
    (rx # NoFrame /\ rx.pid # 0) =>
        /\ pc = "dispatch" => rc = -ENOMSG
        /\ ~handled
        /\ tx = NoTx

\* C3 amended: a frame read with a nonzero sender identity is always
\* rejected by ecryptfs_recv_netlink, with SpoofedSender (-ENOMSG) when the
\* reported peer-address length is valid and with MalformedFrame (-EPROTO)
\* when it is not, and neither parse_packet nor a send happens for it.
C3_SpoofedRejected ==
    (rx # NoFrame /\ rx.pid # 0) =>
        /\ pc = "dispatch" => rc = (IF rx.addr_ok THEN -ENOMSG ELSE -EPROTO)
        /\ pc \in {"dispatch", "free_emsg", "out", "returned", "aborted"} => rc < 0
        /\ ~handled
        /\ tx = NoTx

\* C3 witness: a REQUEST with a message from a nonzero sender has been
\* through the dispatch chain.
C3_Witness ==
    /\ pc = "free_emsg"
    /\ rx.pid # 0
    /\ rx.addr_ok
    /\ rx.type = "REQUEST"
    /\ rx.len > HdrLen

\* C4: a receive rejected as SpoofedSender leaves the error counter as it
\* was and does not end the loop.
C4_SpoofNotCounted ==
    [][(pc = "dispatch" /\ rc = -ENOMSG) =>
           (error_count' = error_count /\ pc' # "out")]_vars

\* C5: a receive failure adds one to the error counter; the loop ends
\* fatally, with a nonzero status, exactly when the new count exceeds the
\* threshold; otherwise the loop goes back to the receive.
C5_FailureCounts ==
    [][/\ (pc = "dispatch" /\ rc < 0) =>
             /\ error_count' = error_count + 1
             /\ (pc' = "out" /\ rc' # 0)
                  <=> (error_count' > ECRYPTFS_NETLINK_ERROR_COUNT_THRESHOLD)
             /\ pc' \in {"out", "free_emsg"}
       /\ (pc = "free_emsg" /\ rc < 0 /\ ~handled) => pc' = "receive"]_vars

\* C6 as stated: once exactly THRESHOLD receives in a row have failed,
\* counted from an error counter of zero, the loop has terminated fatally.
C6_FatalAtThreshold ==
    run = ECRYPTFS_NETLINK_ERROR_COUNT_THRESHOLD => TERMINATED_FATAL

\* C6 amended: counted from an error counter of zero, THRESHOLD failed
\* receives in a row leave the loop not terminated; the failure after
\* them, number THRESHOLD + 1, terminates it fatally.
C6_FatalAfterThreshold ==
    /\ run = ECRYPTFS_NETLINK_ERROR_COUNT_THRESHOLD => ~TERMINATED_FATAL
    /\ run = ECRYPTFS_NETLINK_ERROR_COUNT_THRESHOLD + 1 => TERMINATED_FATAL
    /\ run <= ECRYPTFS_NETLINK_ERROR_COUNT_THRESHOLD + 1

\* C6 witness: the daemon returned after THRESHOLD + 1 failures in a row.
C6_Witness ==
    /\ run = ECRYPTFS_NETLINK_ERROR_COUNT_THRESHOLD + 1
    /\ pc = "returned"
    /\ rc = -EIO

\* C7: a QUIT frame that was received takes the loop to TERMINATED_CLEAN
\* (rc 0, on the way to the teardown), with no handler call and no send,
\* whatever happened in earlier iterations.
C7_QuitTerminatesClean ==
    [][(pc = "dispatch" /\ rc >= 0 /\ msg_type = "QUIT") =>
           (pc' = "out" /\ rc' = 0 /\ ~handled' /\ tx' = NoTx)]_vars

\* C8: a HELO frame that was received sets the error counter to 0, calls
\* no handler, sends nothing, and the loop goes on to the next receive.
C8_HeloKeepsRunning ==
    [][/\ (pc = "dispatch" /\ rc >= 0 /\ msg_type = "HELO") =>
             (pc' = "free_emsg" /\ error_count' = 0 /\ ~handled' /\ tx' = NoTx)
       /\ (pc = "free_emsg" /\ rc >= 0 /\ rx.type = "HELO") =>
             (pc' = "receive" /\ error_count' = 0)]_vars

\* C9: when ecryptfs_run_netlink_daemon has returned, by whichever path,
\* ecryptfs_free_key_mod_list has been called exactly once; it is not
\* called while the loop runs; ecryptfs_register_key_modules is called
\* exactly once, before the first receive.
C9_RegistryOnce ==
    /\ pc = "returned" => free_calls = 1
    /\ pc # "returned" => free_calls = 0
    /\ pc = "start" => (reg_calls = 0 /\ chan = NoFrame /\ rx = NoFrame)
    /\ pc # "start" => reg_calls = 1

\* C9 witness: the daemon returned after the error threshold was exceeded.
C9_Witness ==
    /\ pc = "returned"
    /\ rc = -EIO
    /\ free_calls = 1
    /\ reg_calls = 1

\* C10: whenever ecryptfs_recv_netlink has returned, the frame buffer it
\* allocated has been freed, so none is allocated when the next iteration
\* begins.
C10_FrameBufferFreed ==
    ~InRecv => (nlh = 0 /\ leaked = 0)


\* C11: after a successful receive of a frame with a zero-length payload the
\* daemon's emsg is NULL, in every iteration: it is never the message of an
\* earlier receive.
C11_ZeroPayloadNone ==
    (pc = "dispatch" /\ rc >= 0 /\ rx # NoFrame /\ PayloadLen(rx) = 0) =>
        emsg = NullMsg

\* C12: every message a receive allocated is released once, in the
\* iteration that received it: none is still live when the next iteration
\* starts or the daemon has returned, and no iteration frees or reads
\* through a message that was already freed.
C12_MessageFreedOnce ==
    /\ pc \in {"receive", "returned"} => emsg.st # "live"
    /\ pc = "free_emsg" => ~DoubleFree(emsg)
    /\ (pc = "dispatch" /\ rc >= 0 /\ msg_type \in {"QUIT", "REQUEST"}) =>
           ~DoubleFree(emsg)


\* C13: when parse_packet fails for a REQUEST, nothing is sent, the error
\* counter keeps its value, the request message is released and the loop
\* goes on to the next receive.
C13_HandlerFailureKeepsRunning ==
    [][/\ (pc = "dispatch" /\ rc >= 0 /\ msg_type = "REQUEST"
             /\ pc' = "free_emsg" /\ ~h_ok') =>
             (tx' = NoTx /\ sends' = 0 /\ error_count' = error_count)
       /\ (pc = "free_emsg" /\ handled /\ ~h_ok) =>
             (pc' = "receive" /\ emsg'.st # "live"
                /\ error_count' = error_count)]_vars

\* C14: when parse_packet succeeds and the send of the RESPONSE fails, the
\* send was called once, the error counter is 0 as after a successful send,
\* and the loop goes on to the next receive.
C14_SendFailureKeepsRunning ==
    [][(pc = "free_emsg" /\ h_ok /\ ~tx.sent) =>
           (sends = 1 /\ error_count = 0
              /\ pc' = "receive" /\ error_count' = 0)]_vars

\* C15: a received frame whose type is none of HELO, QUIT and REQUEST
\* leaves the error counter unchanged, calls no handler, sends nothing, and
\* the loop goes on to the next receive.
C15_UnrecognizedKeepsRunning ==
    [][/\ (pc = "dispatch" /\ rc >= 0
             /\ msg_type \notin {"HELO", "QUIT", "REQUEST"}) =>
             (pc' = "free_emsg" /\ error_count' = error_count
                /\ ~handled' /\ tx' = NoTx)
       /\ (pc = "free_emsg" /\ rc >= 0 /\ rx # NoFrame
             /\ rx.type \notin {"HELO", "QUIT", "REQUEST"}) =>
             (pc' = "receive" /\ error_count' = error_count)]_vars

\* C16: the running loop is left in two ways only: by a received QUIT
\* frame (rc 0) or by a failed receive that takes the error counter over
\* the threshold (nonzero rc).
C16_OnlyTwoExits ==
    [][(RUNNING /\ ~RUNNING') =>
           /\ pc = "dispatch"
           /\ pc' = "out"
           /\ \/ rc >= 0 /\ msg_type = "QUIT" /\ rc' = 0
              \/ /\ rc < 0
                 /\ error_count' > ECRYPTFS_NETLINK_ERROR_COUNT_THRESHOLD
                 /\ rc' # 0]_vars


\* C17: every call of ecryptfs_recv_netlink first peeks into a header-sized
\* buffer, which takes nothing from the socket (a failed peek neither), then
\* resizes the buffer to the length the peeked header declares, then reads
\* destructively at most once, into a buffer of exactly the declared length.
C17_TwoPhaseReceive ==
    [][/\ (pc = "receive" /\ pc' # "receive") =>
             (pc' = "r_realloc" /\ peek' /\ buf_len' = HdrLen)
       /\ (pc = "r_realloc") =>
             (pc' \in {"r_recvfrom", "dispatch"}
                /\ (pc' = "r_recvfrom" => nlh' = buf_len)
                /\ chan' = chan /\ rx' = rx)
       /\ (pc = "r_recvfrom" /\ peek) =>
             /\ nlh = HdrLen
             /\ rx' = rx
             /\ pc' \in {"r_realloc", "dispatch"}
             /\ pc' = "r_realloc" =>
                    (~peek' /\ chan' # NoFrame /\ buf_len' = chan'.len)
             /\ pc' = "dispatch" => chan' = chan
       /\ (pc = "r_recvfrom" /\ ~peek) =>
             /\ nlh = chan.len
             /\ pc' \in {"r_check", "dispatch"}
             /\ pc' = "r_check" => (rx' = chan /\ chan' = NoFrame)
       /\ (pc = "r_check") => (pc' = "dispatch" /\ chan' = chan)]_vars

\* C17 witness: a frame with a payload has been read destructively into the
\* buffer resized to NLMSG_HDRLEN + 8 bytes.
C17_Witness ==
    /\ pc = "r_check"
    /\ rx.len = HdrLen + 8
    /\ nlh = HdrLen + 8
    /\ chan = NoFrame

\* C18: for every frame ecryptfs_recv_netlink accepts, the payload buffer
\* it allocated has exactly declared length - header length bytes, and a
\* payload buffer is allocated only when that length is positive.
C18_PayloadBufferExact ==
    /\ pl_alloc >= 0
    /\ pl_alloc # 0 => pl_alloc = rx.len - HdrLen
    /\ (pc = "dispatch" /\ pl_alloc # 0) => emsg.st = "live"
    /\ (pc = "dispatch" /\ rc >= 0 /\ rx # NoFrame) =>
           /\ rx.len - HdrLen > 0 => pl_alloc = rx.len - HdrLen
           /\ rx.len - HdrLen <= 0 => pl_alloc = 0

\* C18 witness: a frame declaring NLMSG_HDRLEN + 8 bytes was accepted and
\* its 8-byte payload buffer allocated.
C18_Witness ==
    /\ pc = "dispatch"
    /\ rc >= 0
    /\ rx.len = HdrLen + 8
    /\ pl_alloc = 8

\* C19: whenever the daemon is about to call the receive, error_count is
\* between 0 and the threshold and equals the number of failed receives, of
\* any kind, since the loop started, the last HELO frame or the last
\* REQUEST whose handler succeeded, whichever came last.
C19_ErrorCountRange ==
    pc = "receive" =>
        /\ error_count >= 0
        /\ error_count <= ECRYPTFS_NETLINK_ERROR_COUNT_THRESHOLD
        /\ error_count = fails

\* C19 witness: the daemon is about to receive after THRESHOLD failures,
\* one of them a spoofed frame.
C19_Witness ==
    /\ pc = "receive"
    /\ error_count = ECRYPTFS_NETLINK_ERROR_COUNT_THRESHOLD
    /\ leaked > 0

\* C20: an iteration calls ecryptfs_send_netlink at most once, only with a
\* RESPONSE frame, and only after its receive accepted a REQUEST frame and
\* parse_packet succeeded; so the frames sent never outnumber the REQUEST
\* frames received.
C20_SendOnlyForRequest ==
    /\ sends <= 1
    /\ (sends = 1) <=> (tx # NoTx)
    /\ tx # NoTx =>
           /\ tx.type = "RESPONSE"
           /\ rx.type = "REQUEST" /\ rx.addr_ok /\ rx.pid = 0
           /\ handled /\ h_ok
    /\ owed >= 0

\* C20 witness: a RESPONSE went out while an earlier REQUEST stays
\* unanswered.
C20_Witness ==
    /\ sends = 1
    /\ tx.sent
    /\ owed > 0

====
